---- MODULE Spec2Model ----
(***************************************************************************)
(* Model of the spaceship search driver (src/src/main.rs): Opt::sss,       *)
(* Sss::from_save, Sss::write_pat, Sss::write_save, Sss::search and main.  *)
(* The search engine (rlifesrc_lib) is an external library: each call      *)
(* into it is a nondeterministic choice over the results its interface     *)
(* allows.                                                                 *)
(***************************************************************************)
EXTENDS Integers, Sequences, FiniteSets, TLC

(***************************************************************************)
(* Bounds of the model.                                                    *)
(***************************************************************************)
MaxPeriod == 2
MaxCells == 2
MaxHeight == 3
MaxSaveFreq == 2
PatMaxWidth == 2
PatMaxHeight == 2
WideSpan == 2
MaxRun == 11
MaxTail == 4
BlockLen == 10

(***************************************************************************)
(* u32 arithmetic.  TLC's integers are 32-bit signed, so a u32 is kept as  *)
(* a pair <<hi, lo>> of 16-bit limbs, value hi * 2^16 + lo.                *)
(***************************************************************************)
Limb == 65536

U32(n) == <<n \div Limb, n % Limb>>

U32_MAX == <<Limb - 1, Limb - 1>>

U32Lt(a, b) == a[1] < b[1] \/ (a[1] = b[1] /\ a[2] < b[2])

U32Le(a, b) == a = b \/ U32Lt(a, b)

\* a - 1 on u32 when the subtraction wraps (overflow checks off)
wrapping_sub1(a) ==
    IF a[2] > 0 THEN <<a[1], a[2] - 1>>
    ELSE IF a[1] > 0 THEN <<a[1] - 1, Limb - 1>>
    ELSE U32_MAX

\* a + 1 on u32 when the addition wraps (overflow checks off)
wrapping_add1(a) ==
    IF a[2] < Limb - 1 THEN <<a[1], a[2] + 1>>
    ELSE IF a[1] < Limb - 1 THEN <<a[1] + 1, 0>>
    ELSE U32(0)

\* Option<T>: None is the empty tuple, Some(v) the one-element tuple
None == <<>>

Some(v) == <<v>>

IsSome(o) == Len(o) = 1

Unwrap(o) == o[1]

(***************************************************************************)
(* State.                                                                  *)
(*   opt        command line (struct Opt): period, init_cell_count,        *)
(*              init_height, save_freq                                     *)
(*   checked    the build: TRUE when integer overflow checks are compiled  *)
(*              in (arithmetic overflow panics), FALSE when it wraps       *)
(*   file       the checkpoint file save.json                              *)
(*   pc         "main" before line 298, "search" inside Sss::search,       *)
(*              "exit" once the process has ended                          *)
(*   cell_count, gen, world   the fields of struct Sss                     *)
(*   i          iterations done of the loop `for _ in 0..save_freq`        *)
(*   ev         what the last step did and printed                         *)
(*   pat        the result file last written by write_pat in this run      *)
(* For the pattern encoder alone (SpecPat):                                *)
(*   cells      the cell states of the generation write_pat encodes,       *)
(*              cells[y + 1][x + 1] = world.get_cell_state((x, y, gen))    *)
(*   rule       the world's rule: config().rule_string and is_gen_rule()   *)
(*   text       what write_pat wrote to the file (None: nothing yet)       *)
(***************************************************************************)
VARIABLES opt, checked, file, pc, cell_count, gen, world, i, ev, pat,
          cells, rule, text, prev

pvars == <<cells, rule, text>>

vars ==
    <<opt, checked, file, pc, cell_count, gen, world, i, ev, pat, pvars, prev>>

\* struct Opt, the fields the driver's control flow reads
Opts ==
    [period : 1..MaxPeriod, init_cell_count : 0..MaxCells,
     init_height : {1, 2}, save_freq : 0..MaxSaveFreq]

\* the rules of the model: the default two-state rule (line 53) and a
\* Generations rule with three states
Rules ==
    {[rule_string |-> "B3/S23", is_gen_rule |-> FALSE],
     [rule_string |-> "/2/3", is_gen_rule |-> TRUE]}

NoRule == [rule_string |-> "", is_gen_rule |-> FALSE]

\* the Sss fields before main has built them
NoWorld == [height |-> 0, period |-> 0, max_cell_count |-> None]

\* A world is modelled by its configuration (world.config()): the engine's
\* cells are the library's own state, read through cell_count_gen only.
NewWorld(height, period, max_cell_count) ==
    [height |-> height, period |-> period, max_cell_count |-> max_cell_count]

\* the living cells per generation the engine may hold when it reports a
\* result: counts[t + 1] is what world.cell_count_gen(t) returns
Counts(period) == [1..period -> 0..MaxCells]

cell_count_gen(counts, t) == counts[t + 1]

\* Event records: the operation of the last step, how it ended, the
\* generation it displayed (NoShow: none) and, for Status::Found, the
\* counts the engine reported
Ev(op, res, shown) == [op |-> op, res |-> res, shown |-> shown, counts |-> <<>>]

EvFound(res, shown, counts) ==
    [op |-> "Found", res |-> res, shown |-> shown, counts |-> counts]

NoShow == -1

(***************************************************************************)
(* Opt::sss (lines 80-102): the configuration's bound and the Sss it       *)
(* builds.                                                                 *)
(***************************************************************************)
\* mutant: the bound is the initial cell count itself
InitBoundNoDec(c) == IF c > 0 THEN Some(U32(c)) ELSE None

InitBound(c) == IF c > 0 THEN Some(U32(c - 1)) ELSE None

sss(o) ==
    [cell_count |-> U32(o.init_cell_count),
     gen |-> 0,
     world |-> NewWorld(o.init_height, o.period, InitBound(o.init_cell_count))]

(***************************************************************************)
(* Sss::from_save (lines 114-127): cell_count from the loaded world's      *)
(* bound, `max_cell_count.map(|i| i + 1).unwrap_or(0)`.                    *)
(***************************************************************************)
SaveOverflows(w) == IsSome(w.max_cell_count) /\ Unwrap(w.max_cell_count) = U32_MAX

SaveCellCount(w) ==
    IF IsSome(w.max_cell_count) THEN wrapping_add1(Unwrap(w.max_cell_count))
    ELSE U32(0)

\* mutant: the restored world gets the height of the command line
from_save_opt_height(f) ==
    [cell_count |-> SaveCellCount(f.world),
     gen |-> 0,
     world |-> [f.world EXCEPT !.height = opt.init_height]]

\* lines 114-127: the Sss built from the checkpoint f alone
from_save(f) ==
    [cell_count |-> SaveCellCount(f.world),
     gen |-> 0,
     world |-> f.world]

(***************************************************************************)
(* Sss::search, Status::Found (lines 263-266): the first generation with   *)
(* the fewest cells, as Iterator::min_by_key folds it (a later element     *)
(* replaces the kept one only when its key is strictly smaller).           *)
(***************************************************************************)
\* mutant: the later generation wins a tie
RECURSIVE min_by_key_last(_, _, _)
min_by_key_last(counts, t, best) ==
    IF t >= Len(counts) THEN best
    ELSE IF cell_count_gen(counts, t) <= cell_count_gen(counts, best)
         THEN min_by_key_last(counts, t + 1, t)
         ELSE min_by_key_last(counts, t + 1, best)

RECURSIVE min_by_key(_, _, _)
min_by_key(counts, t, best) ==
    IF t >= Len(counts) THEN best
    ELSE IF cell_count_gen(counts, t) < cell_count_gen(counts, best)
         THEN min_by_key(counts, t + 1, t)
         ELSE min_by_key(counts, t + 1, best)

min_gen(counts) == min_by_key(counts, 1, 0)

\* line 271: the bound installed after a result, `cell_count - 1` wrapping
Ratchet(c) == Some(wrapping_sub1(c))

\* mutant: the bound is tightened although write_pat failed
AfterFailedWriteRatchets(w, c) == [w EXCEPT !.max_cell_count = Ratchet(c)]

\* line 270, `self.write_pat(&dir)?` returns the error: line 271 is not
\* reached and the world keeps its bound
AfterFailedWrite(w, c) == w

\* mutant: the rebuild forgets `config.height += 1`
GrowSameHeight(w) == NewWorld(w.height, w.period, w.max_cell_count)

\* mutant: the rebuild starts from a configuration without the bound
GrowUnbounded(w) == NewWorld(w.height + 1, w.period, None)

\* lines 275-277: the configuration the engine is rebuilt from
Grow(w) == NewWorld(w.height + 1, w.period, w.max_cell_count)

\* mutant: gen moves on without the remainder
next_gen_unwrapped(g, w) == g + 1

\* line 282
next_gen(g, w) == (g + 1) % w.period

\* line 259, `for _ in 0..save_freq`: another iteration is due
BurstDue(n, save_freq) == n < save_freq

\* mutant: a checkpoint after every iteration
SaveDueEach(n, save_freq) == n = save_freq \/ n > 0

\* line 286 is reached when the inner loop has run out
SaveDue(n, save_freq) == n = save_freq

\* Engine interface: a result is reported only when some generation has at
\* most max_cell_count living cells (the upper bound of lines 22-26)
WithinBound(w, counts) ==
    IF IsSome(w.max_cell_count)
    THEN \E t \in 1..Len(counts) : U32Le(U32(counts[t]), Unwrap(w.max_cell_count))
    ELSE TRUE

(***************************************************************************)
(* Initial state: the process is started with some command line, some      *)
(* build, and a checkpoint file that is absent or cannot be loaded         *)
(* (a loadable one comes from an earlier run, see Restart).                *)
(***************************************************************************)
BadFile(kind) == [kind |-> kind, world |-> NoWorld]

Init ==
    /\ opt \in Opts
    /\ checked \in BOOLEAN
    /\ file \in {BadFile("missing"), BadFile("malformed"), BadFile("unbuildable")}
    /\ pc = "main"
    /\ cell_count = U32(0)
    /\ gen = 0
    /\ world = NoWorld
    /\ i = 0
    /\ ev = Ev("boot", "ok", NoShow)
    /\ pat = None
    /\ cells = <<>>
    /\ rule = NoRule
    /\ text = None
    /\ prev = None

(***************************************************************************)
(* main, line 298, Sss::from_save succeeds: the world of the checkpoint    *)
(* is restored.  `i + 1` overflows for a bound of u32::MAX: a panic with   *)
(* overflow checks, 0 without.                                             *)
(***************************************************************************)
MainLoad ==
    /\ pc = "main"
    /\ file.kind = "ok"
    /\ IF checked /\ SaveOverflows(file.world)
       THEN /\ pc' = "exit"
            /\ ev' = Ev("from_save", "panic", NoShow)
            /\ UNCHANGED <<cell_count, gen, world>>
       ELSE /\ pc' = "search"
            /\ world' = from_save(file).world
            /\ cell_count' = from_save(file).cell_count
            /\ gen' = from_save(file).gen
            /\ ev' = Ev("from_save", "ok", NoShow)
    /\ UNCHANGED <<opt, checked, file, i, pat>>
    /\ UNCHANGED <<pvars, prev>>

(***************************************************************************)
(* main, line 298, Sss::from_save fails (File::open, from_str or           *)
(* WorldSer::world) and `or_else` calls Opt::sss, whose Config::world      *)
(* may fail in turn (line 94).                                             *)
(***************************************************************************)
MainFresh ==
    /\ pc = "main"
    /\ file.kind # "ok"
    /\ \E built \in BOOLEAN :
         IF built
         THEN /\ pc' = "search"
              /\ cell_count' = sss(opt).cell_count
              /\ gen' = sss(opt).gen
              /\ world' = sss(opt).world
              /\ ev' = Ev("sss", "ok", NoShow)
         ELSE /\ pc' = "exit"
              /\ ev' = Ev("sss", "err", NoShow)
              /\ UNCHANGED <<cell_count, gen, world>>
    /\ UNCHANGED <<opt, checked, file, i, pat>>
    /\ UNCHANGED <<pvars, prev>>

(***************************************************************************)
(* Sss::search, one iteration of the inner loop with Status::Found         *)
(* (lines 260-273).  write_pat may fail (line 270, `?`); `cell_count - 1`  *)
(* on line 271 overflows for 0: a panic with overflow checks, u32::MAX     *)
(* without.                                                                *)
(***************************************************************************)
SearchFound ==
    /\ pc = "search"
    /\ BurstDue(i, opt.save_freq)
    /\ \E counts \in Counts(world.period), written \in BOOLEAN :
         LET g == min_gen(counts)
             c == U32(cell_count_gen(counts, g))
         IN  /\ WithinBound(world, counts)
             /\ cell_count' = c
             /\ IF ~written
                THEN /\ gen' = g
                     /\ pc' = "exit"
                     /\ ev' = EvFound("err", g, counts)
                     /\ world' = AfterFailedWrite(world, c)
                     /\ UNCHANGED <<i, pat>>
                ELSE /\ pat' = Some([cell_count |-> c, gen |-> g])
                     /\ IF checked /\ c = U32(0)
                        THEN /\ gen' = g
                             /\ pc' = "exit"
                             /\ ev' = EvFound("panic", g, counts)
                             /\ UNCHANGED <<world, i>>
                        ELSE /\ world' = [world EXCEPT !.max_cell_count = Ratchet(c)]
                             /\ gen' = 0
                             /\ i' = i + 1
                             /\ ev' = EvFound("ok", g, counts)
                             /\ UNCHANGED pc
    /\ UNCHANGED <<opt, checked, file>>
    /\ UNCHANGED <<pvars, prev>>

(***************************************************************************)
(* Sss::search, one iteration with Status::None (lines 274-279): the       *)
(* world is rebuilt one row higher; Config::world may fail (line 277).     *)
(* The height is capped at MaxHeight.                                      *)
(***************************************************************************)
SearchNone ==
    /\ pc = "search"
    /\ BurstDue(i, opt.save_freq)
    /\ world.height < MaxHeight
    /\ \E built \in BOOLEAN :
         IF built
         THEN /\ world' = Grow(world)
              /\ gen' = 0
              /\ i' = i + 1
              /\ ev' = Ev("None", "ok", NoShow)
              /\ UNCHANGED pc
         ELSE /\ pc' = "exit"
              /\ ev' = Ev("None", "err", NoShow)
              /\ UNCHANGED <<world, gen, i>>
    /\ UNCHANGED <<opt, checked, file, cell_count, pat>>
    /\ UNCHANGED <<pvars, prev>>

(***************************************************************************)
(* Sss::search, one iteration with Status::Initial or Status::Searching    *)
(* (lines 280-283, one match arm): the current generation is displayed,    *)
(* then gen moves on.                                                      *)
(***************************************************************************)
SearchContinuing ==
    /\ pc = "search"
    /\ BurstDue(i, opt.save_freq)
    /\ ev' = Ev("Continuing", "ok", gen)
    /\ gen' = next_gen(gen, world)
    /\ i' = i + 1
    /\ UNCHANGED <<opt, checked, file, pc, cell_count, world, pat>>
    /\ UNCHANGED <<pvars, prev>>

(***************************************************************************)
(* Sss::search, line 286, after save_freq iterations: write_save.  When    *)
(* it fails the file is untouched (File::create failed) or truncated.      *)
(***************************************************************************)
Snapshot(w) == [kind |-> "ok", world |-> w]

WriteSave ==
    /\ pc = "search"
    /\ SaveDue(i, opt.save_freq)
    /\ \/ /\ file' = Snapshot(world)
          /\ i' = 0
          /\ ev' = Ev("write_save", "ok", NoShow)
          /\ UNCHANGED pc
       \/ /\ file' \in {file, BadFile("malformed")}
          /\ pc' = "exit"
          /\ ev' = Ev("write_save", "err", NoShow)
          /\ UNCHANGED i
    /\ UNCHANGED <<opt, checked, cell_count, gen, world, pat>>
    /\ UNCHANGED <<pvars, prev>>

(***************************************************************************)
(* The environment: the process is interrupted (or has ended) and is       *)
(* started again with the same command line; only the checkpoint file      *)
(* survives.                                                               *)
(***************************************************************************)
Restart ==
    /\ pc \in {"search", "exit"}
    /\ pc' = "main"
    /\ cell_count' = U32(0)
    /\ gen' = 0
    /\ world' = NoWorld
    /\ i' = 0
    /\ ev' = Ev("restart", "ok", NoShow)
    /\ pat' = None
    /\ UNCHANGED <<opt, checked, file>>
    /\ UNCHANGED <<pvars, prev>>

Next ==
    \/ MainLoad
    \/ MainFresh
    \/ SearchFound
    \/ SearchNone
    \/ SearchContinuing
    \/ WriteSave
    \/ Restart

Spec == Init /\ [][Next]_vars

(***************************************************************************)
(* Sss::write_pat (lines 165-241), the text it writes.  A string is a      *)
(* sequence of one-character strings.                                      *)
(***************************************************************************)
\* rlifesrc_lib::DEAD and ALIVE are State(0) and State(1); a cell state is
\* an Option<State>: None (unknown) or Some(i)
DEAD == 0

ALIVE == 1

\* (b'A' + i as u8 - 1) as char, for the states of the model
Letters == <<"A", "B", "C", "D">>

\* lines 181-198: the character pushed for one cell
CellChar(state, is_gen_rule) ==
    IF state = None THEN "?"
    ELSE IF Unwrap(state) = DEAD THEN (IF is_gen_rule THEN "." ELSE "b")
    ELSE IF Unwrap(state) = ALIVE THEN (IF is_gen_rule THEN "A" ELSE "o")
    ELSE Letters[Unwrap(state)]

\* str::trim_end_matches with a set of characters: str up to its last
\* character that is not in the set
trim_end_matches(str, set) ==
    LET kept == {k \in 1..Len(str) : str[k] \notin set}
    IN  IF kept = {} THEN <<>>
        ELSE SubSeq(str, 1, CHOOSE k \in kept : \A j \in kept : j <= k)

\* mutant: the row keeps its trailing dead and unknown cells
RowLineUntrimmed(row, is_gen_rule) ==
    [x \in 1..Len(row) |-> CellChar(row[x], is_gen_rule)]

\* mutant: only trailing dead cells are trimmed, unknown cells are kept
RowLineKeepsUnknown(row, is_gen_rule) ==
    trim_end_matches([x \in 1..Len(row) |-> CellChar(row[x], is_gen_rule)],
                     {".", "b"})

\* lines 178-200: one row, its trailing dead and unknown cells trimmed
RowLine(row, is_gen_rule) ==
    trim_end_matches([x \in 1..Len(row) |-> CellChar(row[x], is_gen_rule)],
                     {".", "b", "?"})

\* lines 176, 201: the maximum of the trimmed rows' lengths, from 0
RECURSIVE PatWidth(_, _, _)
PatWidth(grid, is_gen_rule, y) ==
    IF y = 0 THEN 0
    ELSE LET w == PatWidth(grid, is_gen_rule, y - 1)
             n == Len(RowLine(grid[y], is_gen_rule))
         IN  IF n > w THEN n ELSE w

\* lines 177-204: every trimmed row followed by '$'
RECURSIVE Rows(_, _, _)
Rows(grid, is_gen_rule, y) ==
    IF y = 0 THEN <<>>
    ELSE Rows(grid, is_gen_rule, y - 1) \o RowLine(grid[y], is_gen_rule) \o <<"$">>

\* mutant: the '$' after the last rows are kept
UnrleUntrimmed(grid, is_gen_rule) ==
    Rows(grid, is_gen_rule, Len(grid)) \o <<"!">>

\* lines 205-206
Unrle(grid, is_gen_rule) ==
    trim_end_matches(Rows(grid, is_gen_rule, Len(grid)), {"$"}) \o <<"!">>

\* integer to_string
Digits == <<"0", "1", "2", "3", "4", "5", "6", "7", "8", "9">>

RECURSIVE to_string(_)
to_string(n) ==
    IF n < 10 THEN <<Digits[n + 1]>>
    ELSE to_string(n \div 10) \o <<Digits[(n % 10) + 1]>>

\* line 226: the longest line of the body
LineMax == 70

\* mutant: the count written is one short
RunOneShort(count, c) ==
    (IF count > 1 THEN to_string(count - 1) ELSE <<>>) \o <<c>>

\* lines 220-225: a run of count characters c
Run(count, c) == (IF count > 1 THEN to_string(count) ELSE <<>>) \o <<c>>

\* lines 215-219: the run of equal characters that starts at unrle[k] ends
\* at the first place whose next character differs (count is its length)
RunEnd(unrle, k) ==
    CHOOSE e \in k..Len(unrle) :
        /\ \A j \in k..e : unrle[j] = unrle[k]
        /\ e < Len(unrle) => unrle[e + 1] # unrle[k]

\* mutant: the pending line is flushed only once it is over the limit
RECURSIVE WrapLate(_, _, _, _)
WrapLate(unrle, k, line, done) ==
    IF k > Len(unrle)
    THEN IF Len(line) < LineMax THEN done \o line ELSE done \o line \o <<"\n">>
    ELSE LET e == RunEnd(unrle, k)
             run == Run(e - k + 1, unrle[k])
         IN  IF Len(line) <= LineMax
             THEN WrapLate(unrle, e + 1, line \o run, done)
             ELSE WrapLate(unrle, e + 1, run, done \o line \o <<"\n">>)

\* lines 214-239: the loop over unrle, one run at a time from the run that
\* starts at its k-th character; `line` is pending, `done` is written
RECURSIVE Wrap(_, _, _, _)
Wrap(unrle, k, line, done) ==
    IF k > Len(unrle)
    THEN IF Len(line) < LineMax THEN done \o line ELSE done \o line \o <<"\n">>
    ELSE LET e == RunEnd(unrle, k)
             run == Run(e - k + 1, unrle[k])
         IN  IF Len(line) + Len(run) <= LineMax
             THEN Wrap(unrle, e + 1, line \o run, done)
             ELSE Wrap(unrle, e + 1, run, done \o line \o <<"\n">>)

\* the file: the header line (lines 207-213) and the body after it
write_pat(grid, r) ==
    [x |-> PatWidth(grid, r.is_gen_rule, Len(grid)),
     y |-> Len(grid),
     rule |-> r.rule_string,
     body |-> Wrap(Unrle(grid, r.is_gen_rule), 1, <<>>, <<>>)]

\* the cell states of a rule: two states, or more for a Generations rule
States(is_gen_rule) ==
    {None, Some(DEAD), Some(ALIVE)} \cup (IF is_gen_rule THEN {Some(2)} ELSE {})

Grids(is_gen_rule) ==
    UNION {[1..h -> [1..w -> States(is_gen_rule)]] :
               w \in 1..PatMaxWidth, h \in 1..PatMaxHeight}

\* Wide worlds, whose body is longer than one line.  A row is given by the
\* lengths of its runs, alternately of alive and of dead cells.
RECURSIVE RunsRow(_, _)
RunsRow(lens, j) ==
    IF j = 0 THEN <<>>
    ELSE RunsRow(lens, j - 1)
             \o [x \in 1..lens[j] |-> IF j % 2 = 1 THEN Some(ALIVE) ELSE Some(DEAD)]

\* n runs of BlockLen cells (three characters each in the body), a run of
\* k cells and s runs of one cell
WideRow(n, k, s) ==
    RunsRow([j \in 1..n |-> BlockLen] \o <<k>> \o [j \in 1..s |-> 1], n + 1 + s)

SecondRow(n) == [x \in 1..n |-> IF x = 1 THEN Some(ALIVE) ELSE Some(DEAD)]

WideGrids ==
    {IF two THEN <<WideRow(n, k, s), SecondRow(n * BlockLen + k + s)>>
            ELSE <<WideRow(n, k, s)>> :
        n \in ((LineMax \div 3) - WideSpan)..(LineMax \div 3), k \in 1..MaxRun,
        s \in 0..MaxTail, two \in BOOLEAN}

\* the driver is not running: its variables as Init has them
DriverIdle ==
    /\ opt \in {[period |-> 1, init_cell_count |-> 0, init_height |-> 1,
                 save_freq |-> 1]}
    /\ checked = FALSE
    /\ file = BadFile("missing")
    /\ pc = "main"
    /\ cell_count = U32(0)
    /\ gen = 0
    /\ world = NoWorld
    /\ i = 0
    /\ ev = Ev("boot", "ok", NoShow)
    /\ pat = None
    /\ prev = None

InitPat ==
    /\ DriverIdle
    /\ rule \in Rules
    /\ cells \in Grids(rule.is_gen_rule) \cup WideGrids
    /\ text = None

WritePat ==
    /\ text = None
    /\ text' = Some(write_pat(cells, rule))
    /\ UNCHANGED <<opt, checked, file, pc, cell_count, gen, world, i, ev, pat>>
    /\ UNCHANGED <<cells, rule, prev>>

NextPat == WritePat

SpecPat == InitPat /\ [][NextPat]_vars

(***************************************************************************)
(* main, line 298, started twice on the same checkpoint file with two      *)
(* command lines.  `prev` keeps what the first start built.                *)
(***************************************************************************)
\* the worlds a checkpoint may hold
SavedWorlds ==
    {NewWorld(h, p, b) :
        h \in 1..MaxHeight, p \in 1..MaxPeriod,
        b \in {None, Some(U32_MAX)} \cup {Some(U32(n)) : n \in 0..(MaxCells - 1)}}

\* save_freq is read by search only (line 259)
ResumeOpts == {o \in Opts : o.save_freq = 1}

InitResume ==
    /\ opt \in ResumeOpts
    /\ checked \in BOOLEAN
    /\ file \in {Snapshot(w) : w \in SavedWorlds}
                 \cup {BadFile("missing"), BadFile("malformed")}
    /\ pc = "main"
    /\ cell_count = U32(0)
    /\ gen = 0
    /\ world = NoWorld
    /\ i = 0
    /\ ev = Ev("boot", "ok", NoShow)
    /\ pat = None
    /\ cells = <<>>
    /\ rule = NoRule
    /\ text = None
    /\ prev = None

\* the program is started again, before any burst, with another command
\* line; the checkpoint file is the same
Relaunch ==
    /\ pc \in {"search", "exit"}
    /\ prev = None
    /\ prev' = Some([loaded |-> ev.op = "from_save" /\ ev.res = "ok",
                     world |-> world, cell_count |-> cell_count, gen |-> gen])
    /\ opt' \in ResumeOpts \ {opt}
    /\ pc' = "main"
    /\ cell_count' = U32(0)
    /\ gen' = 0
    /\ world' = NoWorld
    /\ ev' = Ev("restart", "ok", NoShow)
    /\ UNCHANGED <<checked, file, i, pat>>
    /\ UNCHANGED pvars

NextResume ==
    \/ MainLoad
    \/ MainFresh
    \/ Relaunch

SpecResume == InitResume /\ [][NextResume]_vars

(***************************************************************************)
(* Properties of the driver.                                               *)
(***************************************************************************)
\* b2 is no looser a bound than b1 (None: no bound)
BoundLe(b2, b1) ==
    IF IsSome(b1) THEN IsSome(b2) /\ U32Le(Unwrap(b2), Unwrap(b1)) ELSE TRUE

InRun == pc = "search" /\ pc' # "main"

\* C1: within one run the max-cell-count bound never gets looser: the
\* bound after a Found is at most the bound before it, and no other step
\* of the run raises it.
C1_RatchetMonotone ==
    [][InRun => BoundLe(world'.max_cell_count, world.max_cell_count)]_vars

\* C2: on every Found the generation displayed and encoded has the fewest
\* living cells of generations 0..period-1, is the lowest such generation,
\* and cell_count is that minimum.
C2_MinPhaseSelected ==
    ev.op = "Found" =>
        LET n == Len(ev.counts)
            g == ev.shown
        IN  /\ n = world.period
            /\ g \in 0..(n - 1)
            /\ \A t \in 0..(n - 1) : ev.counts[g + 1] <= ev.counts[t + 1]
            /\ \A t \in 0..(n - 1) : t < g => ev.counts[t + 1] > ev.counts[g + 1]
            /\ cell_count = U32(ev.counts[g + 1])
            /\ ev.res # "err" => pat = Some([cell_count |-> cell_count, gen |-> g])

C2_TieWitness ==
    /\ ev.op = "Found"
    /\ ev.res = "ok"
    /\ Len(ev.counts) = 2
    /\ ev.counts[1] = ev.counts[2]
    /\ ev.counts[1] > 0

\* C3: within one run the height changes only on Status::None, by exactly
\* +1; Found, Continuing and write_save leave it alone.
C3_HeightOnlyGrows ==
    [][InRun =>
         IF ev'.op = "None" /\ ev'.res = "ok"
         THEN world'.height = world.height + 1
         ELSE world'.height = world.height]_vars

C3_GrownTwice ==
    /\ ev.op = "None"
    /\ ev.res = "ok"
    /\ world.height = opt.init_height + 2

\* C4: on Status::None the engine is rebuilt with height + 1 and the bound
\* in effect before the rebuild; cell_count is unchanged and gen is 0.
C4_RebuildKeepsBound ==
    [][(InRun /\ ev'.op = "None" /\ ev'.res = "ok") =>
         /\ world' = [world EXCEPT !.height = @ + 1]
         /\ cell_count' = cell_count
         /\ gen' = 0]_vars

C4_RatchetedThenRebuilt ==
    /\ ev.op = "None"
    /\ ev.res = "ok"
    /\ pat # None
    /\ world.max_cell_count = Some(U32(0))
    /\ opt.init_cell_count = 0

\* the fewest living cells among the generations of a reported result
MinCount(counts) == counts[min_gen(counts) + 1]

\* C5: when the engine reports Found and the minimum count is 0 the driver
\* halts; it never goes on searching under a bound made from 0 - 1.
C5_ZeroFoundIsFatal ==
    (ev.op = "Found" /\ MinCount(ev.counts) = 0) => pc = "exit"

\* C6: a run resumed from a checkpoint has the checkpoint's bound, and
\* cell_count is that bound + 1, or 0 when there is no bound.
C6_ResumeKeepsBound ==
    (ev.op = "from_save" /\ ev.res = "ok") =>
        /\ world.max_cell_count = file.world.max_cell_count
        /\ IF IsSome(world.max_cell_count)
           THEN /\ U32Lt(Unwrap(world.max_cell_count), cell_count)
                /\ wrapping_sub1(cell_count) = Unwrap(world.max_cell_count)
           ELSE cell_count = U32(0)

\* C7: when the checkpoint cannot be loaded the driver builds a fresh engine
\* from the command line: height = init_height, gen = 0, cell_count =
\* init_cell_count, bound = init_cell_count - 1 (none for 0); the process
\* ends before the loop only when that build fails.
C7_FreshOnLoadFailure ==
    [][(pc = "main" /\ file.kind # "ok") =>
         /\ ev'.op = "sss"
         /\ IF ev'.res = "ok"
            THEN /\ pc' = "search"
                 /\ world'.height = opt.init_height
                 /\ world'.period = opt.period
                 /\ gen' = 0
                 /\ i' = 0
                 /\ cell_count' = U32(opt.init_cell_count)
                 /\ world'.max_cell_count =
                        IF opt.init_cell_count > 0
                        THEN Some(wrapping_sub1(U32(opt.init_cell_count)))
                        ELSE None
            ELSE pc' = "exit" /\ ev'.res = "err"]_vars

C7_FreshAfterMalformed ==
    /\ ev.op = "sss"
    /\ ev.res = "ok"
    /\ file.kind = "malformed"
    /\ opt.init_cell_count = 2
    /\ world.height = 2

\* C8: in a run without errors a checkpoint is written exactly when
\* save_freq bursts (of any status) have been handled since the last one,
\* never earlier, and it is the snapshot of the world as the last of those
\* bursts left it.
C8_Cadence ==
    [][(pc = "search" /\ pc' = "search") =>
         IF ev'.op = "write_save"
         THEN /\ i = opt.save_freq
              /\ file' = Snapshot(world)
              /\ world' = world
              /\ i' = 0
         ELSE /\ ev'.op \in {"Found", "None", "Continuing"}
              /\ i < opt.save_freq
              /\ i' = i + 1
              /\ file' = file]_vars

C8_SavedAfterRebuild ==
    /\ ev.op = "write_save"
    /\ ev.res = "ok"
    /\ opt.save_freq = 2
    /\ file.world = world
    /\ world.height > opt.init_height
    /\ world.max_cell_count # InitBound(opt.init_cell_count)

(***************************************************************************)
(* Properties of the pattern encoder.                                      *)
(***************************************************************************)
OneDeadCell == cells = <<<<Some(DEAD)>>>>

\* C10 as stated: a 1x1 grid whose cell is dead gives the header
\* `x = 0, y = 0, rule = <R>` and the body `!`.
C10_OneDeadCellHeaderZero ==
    (OneDeadCell /\ text # None) =>
        /\ Unwrap(text).x = 0
        /\ Unwrap(text).y = 0
        /\ Unwrap(text).rule = rule.rule_string
        /\ Unwrap(text).body = <<"!">>

\* C10, amended: a 1x1 grid whose cell is dead gives the header
\* `x = 0, y = 1, rule = <R>` (the height is the number of rows) and the
\* body `!`.
C10_OneDeadCell ==
    (OneDeadCell /\ text # None) =>
        /\ Unwrap(text).x = 0
        /\ Unwrap(text).y = 1
        /\ Unwrap(text).rule = rule.rule_string
        /\ Unwrap(text).body = <<"!">>

C10_OneDeadCellWritten == OneDeadCell /\ text # None

\* the body's k-th character ends a line
IsBreak(body, k) == body[k] = "\n"

DigitSet == {Digits[d] : d \in 1..Len(Digits)}

\* C11: no line of the body is longer than 70 characters (every 71
\* consecutive characters hold a line break), and a line break never
\* follows a digit, so every <count><symbol> token is whole on one line.
C11_LinesWithin70 ==
    text # None =>
        LET body == Unwrap(text).body
        IN  /\ \A a \in 1..(Len(body) - 70) :
                   \E k \in a..(a + 70) : IsBreak(body, k)
            /\ \A k \in 1..Len(body) :
                   IsBreak(body, k) => (k > 1 /\ body[k - 1] \notin DigitSet)

\* a first line of 69 characters: the token after it, which has a count and
\* would end beyond column 70, is whole on the second line
C11_CountMovedToNextLine ==
    /\ text # None
    /\ Len(Unwrap(text).body) > 71
    /\ \A k \in 1..69 : ~IsBreak(Unwrap(text).body, k)
    /\ IsBreak(Unwrap(text).body, 70)
    /\ Unwrap(text).body[71] \in DigitSet

\* the grid with every unknown cell replaced by a dead cell
Deaden(grid) ==
    [y \in 1..Len(grid) |->
        [x \in 1..Len(grid[y]) |->
            IF grid[y][x] = None THEN Some(DEAD) ELSE grid[y][x]]]

\* some unknown cell has a cell that is neither dead nor unknown after it
\* in its row
HasInteriorUnknown(grid) ==
    \E y \in 1..Len(grid) : \E x \in 1..Len(grid[y]) :
        /\ grid[y][x] = None
        /\ \E x2 \in (x + 1)..Len(grid[y]) :
               grid[y][x2] \notin {None, Some(DEAD)}

Filler == {None, Some(DEAD)}

RefRowLen(row) ==
    IF \A x \in 1..Len(row) : row[x] \in Filler THEN 0
    ELSE CHOOSE n \in 1..Len(row) :
             /\ row[n] \notin Filler
             /\ \A x \in (n + 1)..Len(row) : row[x] \in Filler

RefRow(row, is_gen_rule) ==
    [x \in 1..RefRowLen(row) |-> CellChar(row[x], is_gen_rule)]

\* the last row that keeps a cell, 0 when there is none
RefLastRow(grid) ==
    IF \A y \in 1..Len(grid) : RefRowLen(grid[y]) = 0 THEN 0
    ELSE CHOOSE n \in 1..Len(grid) :
             /\ RefRowLen(grid[n]) > 0
             /\ \A y \in (n + 1)..Len(grid) : RefRowLen(grid[y]) = 0

\* rows 1..n joined with '$' between them
RECURSIVE RefJoin(_, _, _)
RefJoin(grid, is_gen_rule, n) ==
    IF n = 0 THEN <<>>
    ELSE IF n = 1 THEN RefRow(grid[1], is_gen_rule)
    ELSE RefJoin(grid, is_gen_rule, n - 1) \o <<"$">>
             \o RefRow(grid[n], is_gen_rule)

\* the places of str where a maximal run of equal symbols starts
RunStarts(str) == {k \in 1..Len(str) : k = 1 \/ str[k] # str[k - 1]}

\* str[a..b], made of whole maximal runs, as count and symbol for each run,
\* the count omitted when it is 1 (split at the run start nearest the middle)
RECURSIVE RefRle(_, _, _)
RefRle(str, a, b) ==
    LET inner == {m \in RunStarts(str) : a < m /\ m <= b}
    IN  IF inner = {}
        THEN (IF b = a THEN <<>> ELSE to_string(b - a + 1)) \o <<str[a]>>
        ELSE LET off(k) == IF 2 * k > a + b THEN 2 * k - (a + b)
                                             ELSE (a + b) - 2 * k
                 m == CHOOSE k \in inner : \A n \in inner : off(k) <= off(n)
             IN  RefRle(str, a, m - 1) \o RefRle(str, m, b)

RefEncoding(grid, is_gen_rule) ==
    LET str == RefJoin(grid, is_gen_rule, RefLastRow(grid)) \o <<"!">>
    IN  RefRle(str, 1, Len(str))

RefWidth(grid) ==
    CHOOSE w \in 0..Len(grid[1]) :
        /\ \A y \in 1..Len(grid) : RefRowLen(grid[y]) <= w
        /\ \E y \in 1..Len(grid) : RefRowLen(grid[y]) = w

\* the body without its line breaks
NoBreaks(body) == SelectSeq(body, LAMBDA c : c # "\n")

\* C13 as stated: the body written for a grid is the reference encoding,
\* and the header's width the longest stripped row.
C13_BodyIsReference ==
    text # None =>
        /\ Unwrap(text).body = RefEncoding(cells, rule.is_gen_rule)
        /\ Unwrap(text).x = RefWidth(cells)

\* C13, amended: the body without its line breaks is the reference
\* encoding, the body is the reference encoding itself when that is shorter
\* than 70 characters, and the header's width is the longest stripped row.
C13_BodyIsWrappedReference ==
    text # None =>
        LET ref == RefEncoding(cells, rule.is_gen_rule)
        IN  /\ NoBreaks(Unwrap(text).body) = ref
            /\ Len(ref) < 70 => Unwrap(text).body = ref
            /\ Unwrap(text).x = RefWidth(cells)

\* a two-row world was written on more than one line
C13_TwoRowsWrapped ==
    /\ text # None
    /\ Len(cells) = 2
    /\ \E k \in 1..(Len(Unwrap(text).body) - 1) : IsBreak(Unwrap(text).body, k)

\* Reading a body back.  The cell a symbol stands for:
SymbolCell(c) ==
    IF c = "?" THEN None
    ELSE IF c \in {"b", "."} THEN Some(DEAD)
    ELSE IF c = "o" THEN Some(ALIVE)
    ELSE Some(CHOOSE n \in 1..Len(Letters) : Letters[n] = c)

\* the number written in body[a..b], 1 when there is no digit
RECURSIVE ParseCount(_, _, _)
ParseCount(body, a, b) ==
    IF b < a THEN 0
    ELSE 10 * ParseCount(body, a, b - 1)
             + (CHOOSE d \in 0..9 : Digits[d + 1] = body[b])

\* the symbols that the whole tokens str[a..b] stand for, each symbol as
\* many times as its count says (split at the token end nearest the middle)
RECURSIVE Expand(_, _, _)
Expand(str, a, b) ==
    LET ends == {e \in a..(b - 1) : str[e] \notin DigitSet}
    IN  IF ends = {}
        THEN [x \in 1..(IF a = b THEN 1 ELSE ParseCount(str, a, b - 1)) |-> str[b]]
        ELSE LET off(k) == IF 2 * k > a + b THEN 2 * k - (a + b)
                                             ELSE (a + b) - 2 * k
                 m == CHOOSE k \in ends : \A n \in ends : off(k) <= off(n)
             IN  Expand(str, a, m) \o Expand(str, m + 1, b)

\* the rows of symbols in a body: its tokens before the '!' expanded, cut
\* at every '$'
DecodeRows(body) ==
    LET str == NoBreaks(body)
        bang == CHOOSE k \in 1..Len(str) : str[k] = "!"
        flat == IF bang = 1 THEN <<>> ELSE Expand(str, 1, bang - 1)
        ends == {k \in 1..Len(flat) : flat[k] = "$"} \cup {Len(flat) + 1}
        before(k) == {e \in ends : e < k}
        start(k) == IF before(k) = {} THEN 1
                    ELSE 1 + CHOOSE e \in before(k) : \A j \in before(k) : j <= e
    IN  [y \in 1..Cardinality(ends) |->
            LET k == CHOOSE e \in ends : Cardinality(before(e)) = y - 1
            IN  SubSeq(flat, start(k), k - 1)]

\* the grid that a written file holds: its rows, filled with dead cells up
\* to the header's width and height
Decode(t) ==
    LET rows == DecodeRows(t.body)
        h == IF Len(rows) > t.y THEN Len(rows) ELSE t.y
        longer == {Len(rows[y]) : y \in 1..Len(rows)}
        w == CHOOSE m \in longer \cup {t.x} : \A n \in longer \cup {t.x} : n <= m
    IN  [y \in 1..h |-> [x \in 1..w |->
            IF y <= Len(rows) /\ x <= Len(rows[y]) THEN SymbolCell(rows[y][x])
            ELSE Some(DEAD)]]

\* C14: the grid read back from the written body is written with the
\* identical body.
C14_ReencodeSameBody ==
    text # None =>
        write_pat(Decode(Unwrap(text)), rule).body = Unwrap(text).body

\* a body with a count and a row end was written and read back as a grid
\* that differs from the world written
C14_DecodedDiffers ==
    /\ text # None
    /\ Decode(Unwrap(text)) # cells
    /\ \E k \in 1..Len(Unwrap(text).body) : Unwrap(text).body[k] = "$"
    /\ \E k \in 1..Len(Unwrap(text).body) : Unwrap(text).body[k] \in DigitSet

\* C15: the search keeps issuing engine bursts: at every point of the loop
\* a burst is due now, or the checkpoint is due and a burst is due right
\* after it.
C15_BurstWithinOneSave ==
    pc = "search" =>
        \/ BurstDue(i, opt.save_freq)
        \/ SaveDue(i, opt.save_freq) /\ BurstDue(0, opt.save_freq)

\* C16: gen is in 0..period-1 whenever the loop is running, and a burst
\* that returns Initial or Searching displays the generation held before,
\* moves gen to (gen + 1) mod period and leaves the world (height, bound,
\* engine) and cell_count as they are.
C16_PhaseAdvances ==
    /\ [](pc = "search" => gen \in 0..(world.period - 1))
    /\ [][ev'.op = "Continuing" =>
              /\ ev'.shown = gen
              /\ gen' = (gen + 1) % world.period
              /\ gen' \in 0..(world.period - 1)
              /\ world' = world
              /\ cell_count' = cell_count
              /\ pc' = "search"]_vars

\* the last generation of a period-2 world was displayed and gen is 0 again
C16_WrappedAround ==
    /\ ev.op = "Continuing"
    /\ world.period = 2
    /\ ev.shown = 1
    /\ gen = 0

\* C17: a failed write_pat, write_save or rebuild ends the search: the step
\* that fails leaves the world (bound, height), the iteration count and the
\* result files as they are and touches no file but the checkpoint being
\* written, and after it nothing happens but a new start of the program.
C17_FailureIsFatal ==
    [][/\ ev'.res = "err" =>
              /\ pc' = "exit"
              /\ world' = world
              /\ i' = i
              /\ pat' = pat
              /\ ev'.op # "write_save" => file' = file
       /\ pc = "exit" => (pc' = "main" /\ file' = file)]_vars

\* write_pat failed for a result with fewer cells than the bound allows,
\* and the bound is as it was
C17_FailedWriteKeepsBound ==
    /\ ev.op = "Found"
    /\ ev.res = "err"
    /\ pc = "exit"
    /\ IsSome(world.max_cell_count)
    /\ U32Lt(cell_count, Unwrap(world.max_cell_count))

\* C18: whenever a burst may start, except right after a Found with count
\* 0, the bound is cell_count - 1, and there is no bound when cell_count
\* is 0.
C18_BoundIsBestMinusOne ==
    (pc = "search" /\ ~(ev.op = "Found" /\ cell_count = U32(0))) =>
        IF cell_count = U32(0)
        THEN world.max_cell_count = None
        ELSE world.max_cell_count = Some(wrapping_sub1(cell_count))

\* C19: the engine reporting results within the bound only, every result
\* file written in a run after another has a smaller cell count in its
\* name.
C19_NamesDecrease ==
    [][(InRun /\ ev'.op = "Found" /\ ev'.res # "err" /\ IsSome(pat)) =>
           U32Lt(Unwrap(pat').cell_count, Unwrap(pat).cell_count)]_vars

\* C20: a start that loads the checkpoint builds the same world (engine,
\* height, bound), cell_count and gen as an earlier start that loaded the
\* same checkpoint under another command line.
C20_ResumeIgnoresCommandLine ==
    (ev.op = "from_save" /\ ev.res = "ok" /\ IsSome(prev)) =>
        \/ ~Unwrap(prev).loaded
        \/ /\ world = Unwrap(prev).world
           /\ cell_count = Unwrap(prev).cell_count
           /\ gen = Unwrap(prev).gen

\* the second start has loaded a checkpoint whose period, height and bound
\* are all other than those of its command line
C20_LoadedUnlikeCommandLine ==
    /\ ev.op = "from_save"
    /\ ev.res = "ok"
    /\ IsSome(prev)
    /\ Unwrap(prev).loaded
    /\ world.period # opt.period
    /\ world.height # opt.init_height
    /\ world.max_cell_count # InitBound(opt.init_cell_count)

====
